---- MODULE Spec2Model ----
(***************************************************************************)
(* Event-streaming pipeline of the repository: the consumer loop           *)
(* (BackendKafkaConsumer.listen with the AIOKafkaConsumerImplementation    *)
(* steps) and the producer (AIOKafkaProducerImplementation.publish).       *)
(*                                                                         *)
(* The broker and the aiokafka transport are the environment: a            *)
(* partitioned log, a fetch position per partition that getmany advances   *)
(* past every record it returns, and a committed offset per partition      *)
(* that only commit() moves.                                               *)
(***************************************************************************)
EXTENDS Integers, Sequences, FiniteSets, TLC

(* ----------------------------- bounds --------------------------------- *)
MaxClock == 3         \* readings of the clock
MaxBatchLog == 3      \* records of the topic a run of listen() starts on
MaxLog == 2
MaxLiveLog == 1          \* records the broker ever holds, over all partitions
MaxCalls == 2        \* publish() calls made per caller
\* values of the constant module, which the sources import but do not
\* contain; the model takes small ones
MAX_RECORD == 2      \* max_records handed to getmany
MaxCmds == 2         \* cache commands issued per task
MAX_RETRY == 3       \* producer retry ceiling
RETRY_DELAY == 1     \* producer backoff delay

Partitions == {1, 2}

VARIABLES
    \* ---- broker / transport (consumer side) ----
    log,          \* [Partitions -> Seq(record)]  the topic
    position,     \* [Partitions -> Nat] next offset getmany fetches
    committed,    \* [Partitions -> Nat] committed offset of the group
    \* ---- consumer instance ----
    cfg,          \* constructor arguments and bound attributes
    started,      \* AIOKafkaConsumerImplementation.__started
    stopped,      \* self.stopped
    headers,      \* self._headers
    pc,           \* position of the listen() coroutine
    event,        \* local `event` of listen() (NoEvent when {})
    exc,          \* exception that ended listen(), "none" otherwise
    \* ---- observation of the current iteration / run ----
    steps,        \* calls made for the current record, in order
    attempt,      \* how the handling attempt of the current record ended
    rec,          \* messages[0] of the last poll: partition and offset
    raw,          \* exception raised inside the try block of _handle_event
    prev,         \* record on which the previous run ended critically
    runs,         \* 1 in the first run of the process, 2 after a restart
    transportStarts, \* calls of the consumer transport's start()
    \* ---- producer ----
    pstarted,     \* AIOKafkaProducerImplementation.__started
    ppc,          \* [Callers -> position of publish()]
    retry_count,  \* [Callers -> local retry_count]
    sends,        \* [Callers -> outcomes of the sends of the call, in order]
    sleeps,       \* [Callers -> delays slept by the call, in order]
    pexc,         \* [Callers -> exception that ended the call]
    pstarts,      \* calls of the producer transport's start()
    pcalls,       \* [Callers -> calls made so far]
    opc,          \* position of the owner's start() or stop() call
    ocalls,       \* start() and stop() calls the owner made so far
    pstops,       \* calls of the producer transport's stop()
    \* ---- cache client (RetryingRedis) ----
    retry_count_, \* self._retry_count, one per client
    kpc,          \* [Commands -> position of execute_command()]
    ktries,       \* [Commands -> backend calls of the command so far]
    kdelays,      \* [Commands -> backoffs slept by the command, in order]
    kres,         \* [Commands -> what the command returned or raised]
    kalone,       \* [Commands -> no other command ran beside this one]
    kcalls,       \* [Commands -> commands issued so far]
    \* ---- one publish() call and what it puts on the wire ----
    epc,          \* position of the call
    eargs,        \* event_type, payload, key, issued_at it was given
    issued_at,    \* local issued_at after the default was applied
    now,          \* the clock datetime.now reads
    eretry,       \* local retry_count of the call
    envelopes,    \* what each send of the call was handed, in order
    \* ---- observation of a run of listen() over several records ----
    dropped,      \* records getmany fetched and listen() was not handed
    lastTarget    \* [Partitions -> offset of the last commit issued, 0: none]

cvars == <<log, position, committed, cfg, started, stopped, headers, pc,
           event, exc, steps, attempt, rec, raw, prev,
           runs, transportStarts>>
pvars == <<pstarted, ppc, retry_count, sends, sleeps, pexc, pstarts, pcalls,
           opc, ocalls, pstops>>
kvars == <<retry_count_, kpc, ktries, kdelays, kres, kalone, kcalls>>
evars == <<epc, eargs, issued_at, now, eretry, envelopes>>
gvars == <<dropped, lastTarget>>
vars == <<cvars, pvars, kvars, evars, gvars>>

(* ------------------------- records on the wire ------------------------ *)
\* record.value: what the bytes are
JsonKinds == {"bad_utf8", "bad_json", "non_object", "object"}
\* event_type member of an object: missing, "" or a name
EventTypes == {"absent", "empty", "user.created"}
\* record.headers: no header, well-formed trace triple, or a trace id whose
\* bytes are not UTF-8
HeaderKinds == {"none", "trace", "bad_utf8"}
None == "None"
\* the keys publish() may be given
Keys == {None, "", "u1"}

\* the key of a record on the wire: null, or a string of bytes
WireNone == [isnull |-> TRUE, bytes |-> ""]

\* publish: key_formatted = key.encode("utf-8") if key else None
EncodeKey(k) ==
    IF k = None \/ k = "" THEN WireNone
    ELSE [isnull |-> FALSE, bytes |-> k]

Rec(j, t, pl, h, k) ==
    [json |-> j, event_type |-> t, payload |-> pl, hdr |-> h, key |-> k]

\* the records the broker is fed with: every kind of value and of headers
\* on partition 1, a well-formed event and an undecodable value on
\* partition 2
RecordShapes(p) ==
    IF p = 1
    THEN { Rec("object", "user.created", TRUE, "trace", EncodeKey("u1")),
           Rec("object", "user.created", TRUE, "bad_utf8", EncodeKey(None)),
           Rec("object", "absent", TRUE, "none", EncodeKey(None)),
           Rec("non_object", "absent", FALSE, "none", EncodeKey(None)),
           Rec("bad_json", "absent", FALSE, "none", EncodeKey(None)) }
    ELSE { Rec("object", "user.created", TRUE, "none", EncodeKey(None)),
           Rec("object", "empty", TRUE, "none", EncodeKey(None)),
           Rec("bad_utf8", "absent", FALSE, "none", EncodeKey("u1")) }

NoEvent == [empty |-> TRUE]
NoRec == [tp |-> 0, off |-> 0]

Sum2(f) == f[1] + f[2]
TotalLog == Len(log[1]) + Len(log[2])

(* ---------------------- exceptions and their classes ------------------ *)
Skip == "SkippableException"
Invalid == "InvalidMessageException"      \* subclass of SkippableException
Critical == "CriticalException"
Other == "Exception"                        \* any unclassified exception
Raisable == {Skip, Invalid, Critical, Other}

IsSkippable(x) == x \in {Skip, Invalid}

(* --------------------- _get_new_event: decoding ----------------------- *)
\* record.key.decode("utf-8") if record.key else None
DecodeKey(r) ==
    IF r.key.isnull \/ r.key.bytes = "" THEN None ELSE r.key.bytes

\* json.loads(record.value.decode("utf-8")), the key injected into a
\* structured event; NoEvent is the {} returned on a decoding error
DecodeRecord(r, tp, offset) ==
    IF r.json \in {"bad_utf8", "bad_json"}
    THEN NoEvent
    ELSE [empty |-> FALSE,
          ev |-> [json |-> r.json,
                  event_type |-> r.event_type,
                  payload |-> r.payload,
                  key |-> IF r.json = "object" /\ r.event_type # "absent"
                             /\ r.payload
                          THEN DecodeKey(r) ELSE "nofield"],
          meta |-> [offset |-> offset, key |-> DecodeKey(r),
                    topic_partition |-> tp],
          hdr |-> r.hdr]

\* the batches getmany may hand out: per partition a number of records from
\* the fetch position on, at most MAX_RECORD in all
Batches ==
    { b \in [Partitions -> 0..MAX_RECORD] :
        /\ \A p \in Partitions : position[p] + b[p] <= Len(log[p])
        /\ Sum2(b) <= MAX_RECORD }

(* ------------------------ _handle_event ------------------------------- *)
FilterName(k) == IF k = 1 THEN "filter1" ELSE IF k = 2 THEN "filter2"
                 ELSE "filterN"

\* variant: every filter runs, whichever raised
FilterSteps_RunsAll(n, i) == [k \in 1..n |-> FilterName(k)]

\* _filter_event: filters run in list order; filter i (0: none) raises
FilterSteps(n, i) ==
    [k \in 1..(IF i = 0 THEN n ELSE i) |-> FilterName(k)]

\* what the collaborators do for one event: the first call that raises
\* (stage, "none" when none does) with the exception it raises (x), and
\* what the before-handle transform returns when it returns (b)
Stages == {"none", "filter1", "filter2", "before", "handler", "after"}
Scripts ==
    { s \in [stage : Stages, x : Raisable, b : {"same", "drop_type"}] :
        s.stage = "none" => s.x = Other }

\* the scripts that fit the configuration: only a configured collaborator
\* can raise or transform
Fits(s, c) ==
    /\ s.stage = "filter1" => c.nfilters >= 1
    /\ s.stage = "filter2" => c.nfilters >= 2
    /\ s.stage = "before" => c.before
    /\ s.stage = "after" => c.after
    /\ s.b = "drop_type" => c.before

\* the try block of _handle_event: the calls made, the exception raised
\* inside it ("none" when it completes) and whether handlers.handle ran
HandleBody(m, c, s) ==
    LET fi == IF s.stage = "filter1" THEN 1
              ELSE IF s.stage = "filter2" THEN 2 ELSE 0
        fsteps == FilterSteps(c.nfilters, fi)
    IN
    IF fi > 0
    THEN [steps |-> fsteps, raised |-> s.x, handled |-> FALSE]
    ELSE
    LET bsteps == IF c.before THEN fsteps \o <<"before">> ELSE fsteps
        m2 == IF c.before /\ s.b = "drop_type" /\ m.json = "object"
              THEN [m EXCEPT !.event_type = "absent"] ELSE m
    IN
    IF s.stage = "before"
    THEN [steps |-> bsteps, raised |-> s.x, handled |-> FALSE]
    ELSE IF m2.json # "object"
    THEN \* event.get on a list, number, string or None: AttributeError
         [steps |-> bsteps, raised |-> Other, handled |-> FALSE]
    ELSE IF m2.event_type \in {"absent", "empty"}
    THEN [steps |-> bsteps, raised |-> Invalid, handled |-> FALSE]
    ELSE IF s.stage = "handler"
    THEN [steps |-> bsteps \o <<"handle">>, raised |-> s.x,
          handled |-> TRUE]
    ELSE IF s.stage = "after"
    THEN [steps |-> bsteps \o <<"handle", "after">>, raised |-> s.x,
          handled |-> TRUE]
    ELSE [steps |-> bsteps \o (IF c.after THEN <<"handle", "after">>
                               ELSE <<"handle">>),
          raised |-> "none", handled |-> TRUE]

\* variant: a critical signal leaves _handle_event as a skip
handle_event_raises_CriticalAsSkip(x) ==
    IF x = "none" THEN "none"
    ELSE IF IsSkippable(x) THEN x
    ELSE IF x = Critical THEN Skip
    ELSE Critical

\* variant: the last except clause re-raises instead of promoting
handle_event_raises_NoPromotion(x) ==
    IF x = "none" THEN "none"
    ELSE IF IsSkippable(x) THEN x
    ELSE IF x = Critical THEN Critical
    ELSE x

\* the except clauses of _handle_event: skip and critical signals are
\* re-raised, anything else is promoted to CriticalException
handle_event_raises(x) ==
    IF x = "none" THEN "none"
    ELSE IF IsSkippable(x) THEN x
    ELSE IF x = Critical THEN Critical
    ELSE Critical

(* ------------------------ _create_header ------------------------------ *)
\* _decode_headers: "raise" stands for the UnicodeDecodeError of
\* header_value.decode('utf-8')
decode_headers(h) ==
    IF h = "bad_utf8" THEN "raise"
    ELSE IF h = "none" THEN "empty" ELSE "trace"

(* ------------------- listen(): the except clauses --------------------- *)
\* variant: the critical clause commits like the skip clause
AfterTry_CommitsCritical(x, c) ==
    IF x = "none" THEN (IF c.mapper THEN "save" ELSE "commit")
    ELSE IF IsSkippable(x) \/ x = Critical THEN "commit"
    ELSE "raised"

\* variant: a skipped record is handled again
AfterTry_RetriesSkip(x, c) ==
    IF x = "none" THEN (IF c.mapper THEN "save" ELSE "commit")
    ELSE IF IsSkippable(x) THEN "handle"
    ELSE "raised"

\* variant: a skipped record ends listen()
AfterTry_RaisesSkip(x, c) ==
    IF x = "none" THEN (IF c.mapper THEN "save" ELSE "commit")
    ELSE "raised"

\* variant: the skip clause saves the header before its commit
AfterTry_SavesSkipped(x, c) ==
    IF x = "none" \/ IsSkippable(x)
    THEN (IF c.mapper THEN "save" ELSE "commit")
    ELSE "raised"

\* variant: the skip clause goes on without the commit
AfterTry_SkipLoops(x, c) ==
    IF x = "none" THEN (IF c.mapper THEN "save" ELSE "commit")
    ELSE IF IsSkippable(x) THEN "loop"
    ELSE "raised"

\* where listen() goes after the try block ended with x ("none": the
\* else clause)
AfterTry(x, c) ==
    IF x = "none" THEN (IF c.mapper THEN "save" ELSE "commit")
    ELSE IF IsSkippable(x) THEN "commit"
    ELSE "raised"

AttemptOf(x) ==
    IF x = "none" THEN "success"
    ELSE IF IsSkippable(x) THEN "skip"
    ELSE IF x = Critical THEN "critical" ELSE "header_error"

(* ----------------------- the consumer instance ------------------------ *)
\* attrs: whether the names listen() and _create_header read in the base
\* class (__started, __event_root_mapper_service, __topic of
\* BackendKafkaConsumer) are bound on the instance. The constructor of
\* AIOKafkaConsumerImplementation binds its own private names only, so an
\* instance as constructed has attrs = "unbound". On an instance that has
\* them, base_started and mapper are the values of the base names; they
\* hold what the constructor was given (not started, the audit sink).
\* hooks: two filters, a before-handle transform and an after-handle hook
\* are configured, or none of them. The code tests each collaborator on
\* its own, so the consumers checked are the bare one and the one with
\* every collaborator.
Cfg(attrs, mapper, hooks) ==
    [attrs |-> attrs, base_started |-> FALSE, mapper |-> mapper,
     mongo_connected |-> mapper, nfilters |-> IF hooks THEN 2 ELSE 0,
     before |-> hooks, after |-> hooks]

Configs ==
    {Cfg("unbound", FALSE, FALSE)}
    \cup {Cfg("bound", m, m) : m \in BOOLEAN}

\* a consumer instance as constructed, of a group that has committed
\* nothing
InitInstance ==
    /\ position = [p \in Partitions |-> 0]
    /\ committed = [p \in Partitions |-> 0]
    /\ cfg \in Configs
    /\ started = FALSE
    /\ stopped = FALSE
    /\ headers = "empty"
    /\ pc = "idle"
    /\ event = NoEvent
    /\ exc = "none"
    /\ steps = <<>>
    /\ attempt = "none"
    /\ rec = NoRec
    /\ raw = "none"
    /\ prev = NoRec
    /\ runs = 1
    /\ transportStarts = 0

InitConsumer ==
    /\ log = [p \in Partitions |-> <<>>]
    /\ InitInstance

\* a producer somewhere appends a record to a partition of the topic. The
\* consumer sees the log through getmany only, which may hand out fewer
\* records than the log holds, so the records are all appended up front.
Produce(p, r) ==
    /\ TotalLog < MaxLog
    /\ pc = "idle" /\ runs = 1
    /\ log' = [log EXCEPT ![p] = Append(@, r)]
    /\ UNCHANGED <<pvars, kvars, evars, gvars>>
    /\ UNCHANGED <<position, committed, cfg, started, stopped, headers, pc,
                   event, exc, steps, attempt, rec,
                   raw, prev, runs, transportStarts>>

\* variant: every signal ends the process
ExitsOnSignal_Always(st) == TRUE

\* _stop: `if self.stopped: sys.exit(0)`
ExitsOnSignal(st) == st

\* _stop, the SIGINT/SIGTERM handler: the first signal sets the flag, a
\* signal that finds it set ends the process (sys.exit), and with it the
\* instance and the coroutine
Signal ==
    /\ pc # "exited"
    /\ IF ExitsOnSignal(stopped)
       THEN /\ pc' = "exited"
            /\ started' = FALSE
            /\ headers' = "empty"
            /\ event' = NoEvent
            /\ exc' = "none"
            /\ steps' = <<>>
            /\ attempt' = "none"
            /\ rec' = NoRec
            /\ raw' = "none"
            /\ transportStarts' = 0
            /\ UNCHANGED stopped
       ELSE /\ stopped' = TRUE
            /\ UNCHANGED <<pc, started, headers, event, exc, steps, attempt,
                           rec, raw, transportStarts>>
    /\ UNCHANGED <<pvars, kvars, evars, gvars>>
    /\ UNCHANGED <<log, position, committed, cfg, prev, runs>>

\* start() called by the owner of the consumer before listen()
Start(ok) ==
    /\ pc = "idle"
    /\ ~started
    /\ transportStarts' = transportStarts + 1
    /\ IF ok
       THEN started' = TRUE /\ UNCHANGED pc
       ELSE \* the error goes to the caller of start(), the process ends
            UNCHANGED started /\ pc' = "exited"
    /\ UNCHANGED <<pvars, kvars, evars, gvars>>
    /\ UNCHANGED <<log, position, committed, cfg, stopped, headers, event,
                   exc, steps, attempt, rec, raw,
                   prev, runs>>

\* listen(), up to the loop: the started test and the lazy start
Listen(ok) ==
    /\ pc = "idle"
    /\ IF cfg.attrs = "unbound"
       THEN \* self.__started is _BackendKafkaConsumer__started here
            /\ ok
            /\ pc' = "raised" /\ exc' = "AttributeError"
            /\ UNCHANGED <<started, transportStarts>>
       ELSE IF ~cfg.base_started /\ ~started
       THEN /\ transportStarts' = transportStarts + 1
            /\ IF ok
               THEN started' = TRUE /\ pc' = "loop" /\ UNCHANGED exc
               ELSE /\ UNCHANGED started
                    /\ pc' = "raised" /\ exc' = "KafkaConnectionError"
       ELSE /\ ok
            /\ pc' = "loop"
            /\ UNCHANGED <<started, transportStarts, exc>>
    /\ UNCHANGED <<pvars, kvars, evars, gvars>>
    /\ UNCHANGED <<log, position, committed, cfg, stopped, headers, event,
                   steps, attempt, rec, raw, prev,
                   runs>>

\* variant: the loop goes on whatever the flag says
LoopGoes_IgnoresFlag(st) == "poll"

\* variant: the test is inverted
LoopGoes_Inverted(st) == IF st THEN "poll" ELSE "returned"

\* while not self.stopped: into the body (the poll) or out of listen()
LoopGoes(st) == IF st THEN "returned" ELSE "poll"

\* the test at the top of the loop
LoopTest ==
    /\ pc = "loop"
    /\ pc' = LoopGoes(stopped)
    /\ UNCHANGED <<pvars, kvars, evars, gvars>>
    /\ UNCHANGED <<log, position, committed, cfg, started, stopped, headers,
                   event, exc, steps, attempt, rec,
                   raw, prev, runs, transportStarts>>

\* variant: the event goes to _handle_event first
AfterPoll_SkipsHeader(e) == IF e.empty THEN "loop" ELSE "handle"

\* variant: an empty result leaves the loop
AfterPoll_EndsOnEmpty(e) == IF e.empty THEN "returned" ELSE "header"

\* variant: an empty result ends listen()
AfterPoll_RaisesOnEmpty(e) == IF e.empty THEN "raised" ELSE "header"

\* listen() after _get_new_event: `if not event: sleep; continue`,
\* otherwise the try block, which begins with _create_header
AfterPoll(e) == IF e.empty THEN "loop" ELSE "header"

\* _get_new_event failing in the transport (or on a transport that was
\* never started): logged, {} returned, listen() sleeps and loops
PollError ==
    /\ pc = "poll"
    /\ event' = NoEvent
    /\ pc' = AfterPoll(event')
    /\ steps' = <<>>
    /\ attempt' = "none"
    /\ rec' = NoRec
    /\ raw' = "none"
    /\ UNCHANGED <<pvars, kvars, evars, gvars>>
    /\ UNCHANGED <<log, position, committed, cfg, started, stopped, headers,
                   exc, prev, runs, transportStarts>>

\* _get_new_event: getmany hands out batch b, whose first partition is
\* first; messages[0] of that partition is decoded, the rest is dropped
Poll(b, first) ==
    /\ pc = "poll"
    /\ started
    /\ b \in Batches
    /\ position' = [p \in Partitions |-> position[p] + b[p]]
    /\ steps' = <<>>
    /\ raw' = "none"
    /\ IF Sum2(b) = 0
       THEN /\ first = 1
            /\ event' = NoEvent
            /\ rec' = NoRec
            /\ attempt' = "none"
       ELSE /\ b[first] > 0
            /\ event' = DecodeRecord(log[first][position[first] + 1],
                                     first, position[first])
            /\ rec' = [tp |-> first, off |-> position[first]]
            /\ attempt' = IF event'.empty THEN "decode_error" ELSE "none"
    /\ pc' = AfterPoll(event')
    /\ UNCHANGED <<pvars, kvars, evars>>
    /\ UNCHANGED <<log, committed, cfg, started, stopped, headers, exc,
                   prev, runs, transportStarts>>

\* self._create_header(headers), line 134 of listen()
CreateHeader(ok) ==
    /\ pc = "header"
    /\ steps' = Append(steps, "header")
    /\ LET d == decode_headers(event.hdr) IN
       IF d = "raise"
       THEN \* not a KeyError: leaves _create_header and listen() as it is
            /\ ok
            /\ pc' = "raised" /\ exc' = "UnicodeDecodeError"
            /\ attempt' = AttemptOf("UnicodeDecodeError")
            /\ UNCHANGED headers
       ELSE IF cfg.mongo_connected /\ d = "empty" /\ cfg.mapper
       THEN \* self.__event_root_mapper_service.create_header()
            IF ok
            THEN /\ headers' = "generated"
                 /\ pc' = "handle"
                 /\ UNCHANGED <<exc, attempt>>
            ELSE /\ pc' = AfterTry(Invalid, cfg)
                 /\ attempt' = AttemptOf(Invalid)
                 /\ UNCHANGED <<headers, exc>>
       ELSE /\ ok
            /\ headers' = IF cfg.mongo_connected /\ d = "empty"
                          THEN "none_triple" ELSE d
            /\ pc' = "handle"
            /\ UNCHANGED <<exc, attempt>>
    /\ UNCHANGED <<pvars, kvars, evars, gvars>>
    /\ UNCHANGED <<log, position, committed, cfg, started, stopped, event,
                   rec, raw, prev, runs,
                   transportStarts>>

\* await self._handle_event(event_data) and the except clauses of listen()
HandleEvent(s) ==
    /\ pc = "handle"
    /\ Fits(s, cfg)
    /\ LET r == HandleBody(event.ev, cfg, s)
           x == handle_event_raises(r.raised)
       IN /\ steps' = steps \o r.steps
          /\ raw' = r.raised
          /\ attempt' = AttemptOf(x)
          /\ pc' = AfterTry(x, cfg)
          /\ exc' = IF AfterTry(x, cfg) = "raised" THEN x ELSE exc
    /\ UNCHANGED <<pvars, kvars, evars, gvars>>
    /\ UNCHANGED <<log, position, committed, cfg, started, stopped, headers,
                   event, rec, prev, runs, transportStarts>>

\* the else clause: save_header on the audit sink
SaveHeader(ok) ==
    /\ pc = "save"
    /\ steps' = Append(steps, "save")
    /\ IF ok
       THEN pc' = "commit" /\ UNCHANGED exc
       ELSE pc' = "raised" /\ exc' = "AuditSinkError"
    /\ UNCHANGED <<pvars, kvars, evars, gvars>>
    /\ UNCHANGED <<log, position, committed, cfg, started, stopped, headers,
                   event, attempt, rec, raw, prev,
                   runs, transportStarts>>

\* the offset _commit_event hands to the transport
CommitTarget(e) == e.meta.offset + 1

\* variant: the commit is issued over and over
AfterCommit_Repeats(ok) == "commit"

\* variant: a failed commit is issued again
AfterCommit_Retries(ok) == IF ok THEN "loop" ELSE "commit"

\* _commit_event returns None whether the commit went through or the
\* except clause logged its failure; listen() goes on with the loop
AfterCommit(ok) == "loop"

\* _commit_event: one transport commit; a failure is logged and swallowed
CommitEvent(ok) ==
    /\ pc = "commit"
    /\ committed' = IF ok
                    THEN [committed EXCEPT ![event.meta.topic_partition] =
                             CommitTarget(event)]
                    ELSE committed
    /\ steps' = Append(steps, "commit")
    /\ pc' = AfterCommit(ok)
    /\ UNCHANGED <<pvars, kvars, evars>>
    /\ UNCHANGED <<log, position, cfg, started, stopped, headers, event, exc,
                   attempt, rec, raw, prev, runs,
                   transportStarts>>

\* stop() called by the owner of the consumer once listen() has ended;
\* listen() itself never calls it. On a consumer that is not started it
\* does nothing, and an error of the transport's stop leaves the flag set:
\* neither changes the state.
Stop ==
    /\ pc \in {"returned", "raised"}
    /\ started
    /\ started' = FALSE
    /\ UNCHANGED <<pvars, kvars, evars, gvars>>
    /\ UNCHANGED <<log, position, committed, cfg, stopped, headers, pc,
                   event, exc, steps, attempt, rec, raw, prev, runs,
                   transportStarts>>

\* the process is started again: a new instance, which joins the group at
\* the committed offsets
Restart ==
    /\ pc \in {"returned", "raised", "exited"}
    /\ runs' = 2
    /\ prev' = IF pc = "raised" /\ exc = Critical THEN rec ELSE NoRec
    /\ position' = committed
    /\ started' = FALSE
    /\ stopped' = FALSE
    /\ headers' = "empty"
    /\ pc' = "idle"
    /\ event' = NoEvent
    /\ exc' = "none"
    /\ steps' = <<>>
    /\ attempt' = "none"
    /\ rec' = NoRec
    /\ raw' = "none"
    /\ transportStarts' = 0
    /\ UNCHANGED <<pvars, kvars, evars, gvars>>
    /\ UNCHANGED <<log, committed, cfg>>

(* ------------------------------ producer ------------------------------ *)
Callers == {1, 2}

PublishFailed == "KafkaPublishMessageFailed"
Transient == {"KafkaTimeoutError", "KafkaConnectionError",
              "ConnectionResetError"}
\* what one pass through the try block of publish() meets: the broker's
\* acknowledgment, an exception of the send or of the awaited future, or a
\* TypeError of json.dumps before anything is sent
SendOutcomes == {"ack", "TypeError"} \cup Transient \cup {Other}

SendClass(o) ==
    IF o = "ack" THEN "ack"
    ELSE IF o \in Transient THEN "transient"
    ELSE IF o = "TypeError" THEN "unsent"
    ELSE "other"

\* asyncio.CancelledError, thrown into the coroutine at the await it is
\* suspended in
Cancelled == "CancelledError"

\* variant: every failed pass is retried
Retryable_All(o) == o # "ack"

\* variant: the transient clause catches the cancellation as well
Retryable_AndCancelled(o) == o \in Transient \cup {Cancelled}

\* except (KafkaTimeoutError, KafkaConnectionError, ConnectionResetError)
Retryable(o) == o \in Transient

\* variant: one retry more
Exhausted_Late(rc) == rc > MAX_RETRY

Exhausted_Never(rc) == FALSE

\* if retry_count >= self.__max_retry
Exhausted(rc) == rc >= MAX_RETRY

\* variant: a delay that grows with the retries
Delay_Linear(rc) == RETRY_DELAY * rc

\* the argument of asyncio.sleep before retry number rc
Delay(rc) == RETRY_DELAY

\* variant: the loop is left without raising once the retries are used up
AfterPass_GivesUpSilently(o, rc) ==
    IF o = "ack" THEN "returned"
    ELSE IF Retryable(o)
    THEN (IF Exhausted(rc) THEN "returned" ELSE "sleep")
    ELSE "raised"

\* how one pass through the loop body ends: break, sleep and retry, or
\* raise KafkaPublishMessageFailed
AfterPass(o, rc) ==
    IF o = "ack" THEN "returned"
    ELSE IF Retryable(o)
    THEN (IF Exhausted(rc) THEN "raised" ELSE "sleep")
    ELSE "raised"

\* variant: the transport is started whatever the flag says
NeedsStart_Always(s) == TRUE

\* if not self.__started, in start() and in publish()
NeedsStart(s) == ~s

\* if self.__started, in stop()
NeedsStop(s) == s

InitProducer ==
    /\ pstarted = FALSE
    /\ ppc = [c \in Callers |-> "idle"]
    /\ retry_count = [c \in Callers |-> 0]
    /\ sends = [c \in Callers |-> <<>>]
    /\ sleeps = [c \in Callers |-> <<>>]
    /\ pexc = [c \in Callers |-> "none"]
    /\ pstarts = 0
    /\ pcalls = [c \in Callers |-> 0]
    /\ opc = "idle"
    /\ ocalls = 0
    /\ pstops = 0

\* publish() is called: the started test and, when it fails, start() up to
\* its await of the transport's start
Publish(c) ==
    /\ ppc[c] \in {"idle", "returned", "raised", "cancelled"}
    /\ pcalls[c] < MaxCalls
    /\ pcalls' = [pcalls EXCEPT ![c] = @ + 1]
    /\ retry_count' = [retry_count EXCEPT ![c] = 0]
    /\ sends' = [sends EXCEPT ![c] = <<>>]
    /\ sleeps' = [sleeps EXCEPT ![c] = <<>>]
    /\ pexc' = [pexc EXCEPT ![c] = "none"]
    /\ IF NeedsStart(pstarted)
       THEN ppc' = [ppc EXCEPT ![c] = "start"] /\ pstarts' = pstarts + 1
       ELSE ppc' = [ppc EXCEPT ![c] = "send"] /\ UNCHANGED pstarts
    /\ UNCHANGED <<pstarted, opc, ocalls, pstops>>
    /\ UNCHANGED <<cvars, kvars, evars, gvars>>

\* the transport's start returns or raises; an error leaves publish() as
\* it is, before the try block
StartDone(c, ok) ==
    /\ ppc[c] = "start"
    /\ IF ok
       THEN /\ pstarted' = TRUE
            /\ ppc' = [ppc EXCEPT ![c] = "send"]
            /\ UNCHANGED pexc
       ELSE /\ ppc' = [ppc EXCEPT ![c] = "raised"]
            /\ pexc' = [pexc EXCEPT ![c] = "KafkaConnectionError"]
            /\ UNCHANGED pstarted
    /\ UNCHANGED <<retry_count, sends, sleeps, pstarts, pcalls, opc, ocalls,
                   pstops>>
    /\ UNCHANGED <<cvars, kvars, evars, gvars>>

\* one pass through the try block of the while loop and its except clauses
Send(c, o) ==
    /\ ppc[c] = "send"
    /\ sends' = [sends EXCEPT ![c] = Append(@, SendClass(o))]
    /\ LET to == AfterPass(o, retry_count[c]) IN
       /\ ppc' = [ppc EXCEPT ![c] = to]
       /\ pexc' = IF to = "raised"
                  THEN [pexc EXCEPT ![c] = PublishFailed] ELSE pexc
       /\ IF to = "sleep"
          THEN /\ retry_count' = [retry_count EXCEPT ![c] = @ + 1]
               /\ sleeps' = [sleeps EXCEPT ![c] =
                                Append(@, Delay(retry_count[c] + 1))]
          ELSE UNCHANGED <<retry_count, sleeps>>
    /\ UNCHANGED <<pstarted, pstarts, pcalls, opc, ocalls, pstops>>
    /\ UNCHANGED <<cvars, kvars, evars, gvars>>

\* asyncio.sleep(self.__delay) is over: the loop sends again
Wake(c) ==
    /\ ppc[c] = "sleep"
    /\ ppc' = [ppc EXCEPT ![c] = "send"]
    /\ UNCHANGED <<pstarted, retry_count, sends, sleeps, pexc, pstarts,
                   pcalls, opc, ocalls, pstops>>
    /\ UNCHANGED <<cvars, kvars, evars, gvars>>

\* the task that runs publish() is cancelled while the call is suspended.
\* In the await of the send (inside try) the CancelledError meets the
\* except clauses: the transient clause does not name it, and the
\* `except Exception` clause catches it only on an interpreter where
\* CancelledError is an Exception (caught), turning it into
\* KafkaPublishMessageFailed. In the sleep (inside the except handler) and
\* in the lazy start (before try) nothing is around the await.
CancelPublish(c, caught) ==
    /\ ppc[c] \in {"start", "send", "sleep"}
    /\ IF ppc[c] = "send"
       THEN LET to == AfterPass(Cancelled, retry_count[c]) IN
            IF to = "sleep"
            THEN /\ ~caught
                 /\ ppc' = [ppc EXCEPT ![c] = "sleep"]
                 /\ retry_count' = [retry_count EXCEPT ![c] = @ + 1]
                 /\ sleeps' = [sleeps EXCEPT ![c] =
                                  Append(@, Delay(retry_count[c] + 1))]
                 /\ UNCHANGED pexc
            ELSE IF caught
            THEN /\ ppc' = [ppc EXCEPT ![c] = "raised"]
                 /\ pexc' = [pexc EXCEPT ![c] = PublishFailed]
                 /\ UNCHANGED <<retry_count, sleeps>>
            ELSE /\ ppc' = [ppc EXCEPT ![c] = "cancelled"]
                 /\ pexc' = [pexc EXCEPT ![c] = Cancelled]
                 /\ UNCHANGED <<retry_count, sleeps>>
       ELSE /\ ~caught
            /\ ppc' = [ppc EXCEPT ![c] = "cancelled"]
            /\ pexc' = [pexc EXCEPT ![c] = Cancelled]
            /\ UNCHANGED <<retry_count, sleeps>>
    /\ UNCHANGED <<pstarted, sends, pstarts, pcalls, opc, ocalls, pstops>>
    /\ UNCHANGED <<cvars, kvars, evars, gvars>>

(* ----------------- publish(): what is put on the wire ----------------- *)
\* an optional datetime: None, or the time t
NoTime == [isnone |-> TRUE, t |-> 0]
Time(t) == [isnone |-> FALSE, t |-> t]

\* the arguments of a call: event_type and payload may be missing, the
\* key is one of Keys, issued_at is a time before the call or not given
PublishArgs ==
    [event_type : {None, "user.created"},
     payload : {None, "data"},
     key : Keys,
     issued_at : {NoTime, Time(0)}]

NoArgs == [event_type |-> None, payload |-> None, key |-> None,
           issued_at |-> NoTime]

\* variant: no default, the argument is used as it was given
DefaultIssuedAt_Keeps(given, t) == given

\* if not issued_at: issued_at = datetime.now(tz=timezone.utc)
DefaultIssuedAt(given, t) == IF given.isnone THEN Time(t) ELSE given

\* the message of one pass and key_formatted: `event_type or ""`,
\* `payload or {}`, issued_at, `key.encode("utf-8") if key else None`
Envelope(a, ia) ==
    [event_type |-> IF a.event_type = None THEN "" ELSE a.event_type,
     payload |-> IF a.payload = None THEN "{}" ELSE a.payload,
     issued_at |-> ia,
     key |-> EncodeKey(a.key)]

InitEnvelope ==
    /\ epc = "idle"
    /\ eargs = NoArgs
    /\ issued_at = NoTime
    /\ now = 1
    /\ eretry = 0
    /\ envelopes = <<>>

\* time passes
Tick ==
    /\ now < MaxClock
    /\ now' = now + 1
    /\ UNCHANGED <<epc, eargs, issued_at, eretry, envelopes>>
    /\ UNCHANGED <<cvars, pvars, kvars, gvars>>

\* publish(event_type, payload, key, issued_at) on a started producer, up
\* to the while loop
PublishCall(a) ==
    /\ epc = "idle"
    /\ eargs' = a
    /\ eretry' = 0
    /\ issued_at' = DefaultIssuedAt(a.issued_at, now)
    /\ envelopes' = <<>>
    /\ epc' = "send"
    /\ UNCHANGED now
    /\ UNCHANGED <<cvars, pvars, kvars, gvars>>

\* one pass of the loop: the message is built from the arguments and the
\* local issued_at, handed to the transport, and the pass ends as o says
SendEnvelope(o) ==
    /\ epc = "send"
    /\ envelopes' = IF o = "TypeError" THEN envelopes
                    ELSE Append(envelopes, Envelope(eargs, issued_at))
    /\ epc' = AfterPass(o, eretry)
    /\ eretry' = IF AfterPass(o, eretry) = "sleep" THEN eretry + 1
                 ELSE eretry
    /\ UNCHANGED <<eargs, issued_at, now>>
    /\ UNCHANGED <<cvars, pvars, kvars, gvars>>

\* asyncio.sleep(self.__delay) is over: time has passed
WakeEnvelope ==
    /\ epc = "sleep"
    /\ epc' = "send"
    /\ now' = IF now < MaxClock THEN now + 1 ELSE now
    /\ UNCHANGED <<eargs, issued_at, eretry, envelopes>>
    /\ UNCHANGED <<cvars, pvars, kvars, gvars>>

\* start() called by the owner of the producer (check_kafka): the started
\* test and, when it passes, the call of the transport's start
ProducerStart ==
    /\ opc = "idle"
    /\ ocalls < MaxCalls
    /\ ocalls' = ocalls + 1
    /\ IF NeedsStart(pstarted)
       THEN opc' = "start" /\ pstarts' = pstarts + 1
       ELSE UNCHANGED <<opc, pstarts>>
    /\ UNCHANGED <<pstarted, ppc, retry_count, sends, sleeps, pexc, pcalls,
                   pstops>>
    /\ UNCHANGED <<cvars, kvars, evars, gvars>>

\* the transport's start returns to start(), which sets the flag, or
\* raises (or is cut short by the timeout of wait_for): the flag is left
ProducerStartDone(ok) ==
    /\ opc = "start"
    /\ opc' = "idle"
    /\ pstarted' = IF ok THEN TRUE ELSE pstarted
    /\ UNCHANGED <<ppc, retry_count, sends, sleeps, pexc, pstarts, pcalls,
                   ocalls, pstops>>
    /\ UNCHANGED <<cvars, kvars, evars, gvars>>

\* stop() called by the owner: the started test and, when it passes, the
\* call of the transport's stop
ProducerStop ==
    /\ opc = "idle"
    /\ ocalls < MaxCalls
    /\ ocalls' = ocalls + 1
    /\ IF NeedsStop(pstarted)
       THEN opc' = "stop" /\ pstops' = pstops + 1
       ELSE UNCHANGED <<opc, pstops>>
    /\ UNCHANGED <<pstarted, ppc, retry_count, sends, sleeps, pexc, pstarts,
                   pcalls>>
    /\ UNCHANGED <<cvars, kvars, evars, gvars>>

\* the transport's stop returns to stop(), which clears the flag, or raises
ProducerStopDone(ok) ==
    /\ opc = "stop"
    /\ opc' = "idle"
    /\ pstarted' = IF ok THEN FALSE ELSE pstarted
    /\ UNCHANGED <<ppc, retry_count, sends, sleeps, pexc, pstarts, pcalls,
                   ocalls, pstops>>
    /\ UNCHANGED <<cvars, kvars, evars, gvars>>

(* ---------------------------- cache client --------------------------- *)
\* the tasks that issue commands (get, set, delete) on one client
Commands == {1, 2}

max_retries == 3     \* self._max_retries

\* what super().execute_command meets: a reply, one of the three
\* exceptions the except clause names, or any other exception
CacheOutcomes == {"ok", "ConnectionError", "TimeoutError", "RedisError",
                  Other}

\* except (ConnectionError, TimeoutError, RedisError)
Caught(o) == o \in {"ConnectionError", "TimeoutError", "RedisError"}

\* variant: the except clause catches the cancellation as well
Caught_AndCancelled(o) ==
    o \in {"ConnectionError", "TimeoutError", "RedisError", Cancelled}

\* variant: one retry fewer
CacheExhausted_Early(rc) == rc >= max_retries

\* if self._retry_count > self._max_retries
CacheExhausted(rc) == rc > max_retries

\* variant: a delay that grows by one
Backoff_Linear(rc) == rc

\* backoff = 2 ** (self._retry_count - 1)
Backoff(rc) == 2 ^ (rc - 1)

InFlight(k) == kpc[k] \in {"call", "sleep"}

InitCache ==
    /\ retry_count_ = 0
    /\ kpc = [k \in Commands |-> "idle"]
    /\ ktries = [k \in Commands |-> 0]
    /\ kdelays = [k \in Commands |-> <<>>]
    /\ kres = [k \in Commands |-> "none"]
    /\ kalone = [k \in Commands |-> TRUE]
    /\ kcalls = [k \in Commands |-> 0]

\* execute_command is entered: self._retry_count = 0
ExecuteCommand(k) ==
    /\ ~InFlight(k)
    /\ kcalls[k] < MaxCmds
    /\ kcalls' = [kcalls EXCEPT ![k] = @ + 1]
    /\ retry_count_' = 0
    /\ kpc' = [kpc EXCEPT ![k] = "call"]
    /\ ktries' = [ktries EXCEPT ![k] = 0]
    /\ kdelays' = [kdelays EXCEPT ![k] = <<>>]
    /\ kres' = [kres EXCEPT ![k] = "none"]
    /\ kalone' = [j \in Commands |->
                    IF j = k THEN \A i \in Commands \ {k} : ~InFlight(i)
                    ELSE IF InFlight(j) THEN FALSE ELSE kalone[j]]
    /\ UNCHANGED <<cvars, pvars, evars, gvars>>

\* one pass through the try block of the while loop and its except clause
BackendCall(k, o) ==
    /\ kpc[k] = "call"
    /\ ktries' = [ktries EXCEPT ![k] = @ + 1]
    /\ IF o = "ok"
       THEN /\ kpc' = [kpc EXCEPT ![k] = "returned"]
            /\ kres' = [kres EXCEPT ![k] = "value"]
            /\ UNCHANGED <<retry_count_, kdelays>>
       ELSE IF Caught(o)
       THEN /\ retry_count_' = retry_count_ + 1
            /\ IF CacheExhausted(retry_count_')
               THEN /\ kpc' = [kpc EXCEPT ![k] = "returned"]
                    /\ kres' = [kres EXCEPT ![k] = "False"]
                    /\ UNCHANGED kdelays
               ELSE /\ kpc' = [kpc EXCEPT ![k] = "sleep"]
                    /\ kdelays' = [kdelays EXCEPT ![k] =
                                      Append(@, Backoff(retry_count_'))]
                    /\ UNCHANGED kres
       ELSE /\ kpc' = [kpc EXCEPT ![k] = "raised"]
            /\ kres' = [kres EXCEPT ![k] = o]
            /\ UNCHANGED <<retry_count_, kdelays>>
    /\ UNCHANGED <<kalone, kcalls>>
    /\ UNCHANGED <<cvars, pvars, evars, gvars>>

\* asyncio.sleep(backoff) is over: the loop calls the backend again
CacheWake(k) ==
    /\ kpc[k] = "sleep"
    /\ kpc' = [kpc EXCEPT ![k] = "call"]
    /\ UNCHANGED <<retry_count_, ktries, kdelays, kres, kalone, kcalls>>
    /\ UNCHANGED <<cvars, pvars, evars, gvars>>

\* the task that runs the command is cancelled while execute_command is
\* suspended: in super().execute_command (inside try) the CancelledError
\* meets the except clause, in the sleep (inside the handler) nothing
CancelCommand(k) ==
    /\ kpc[k] \in {"call", "sleep"}
    /\ IF kpc[k] = "call" /\ Caught(Cancelled)
       THEN /\ retry_count_' = retry_count_ + 1
            /\ IF CacheExhausted(retry_count_')
               THEN /\ kpc' = [kpc EXCEPT ![k] = "returned"]
                    /\ kres' = [kres EXCEPT ![k] = "False"]
                    /\ UNCHANGED kdelays
               ELSE /\ kpc' = [kpc EXCEPT ![k] = "sleep"]
                    /\ kdelays' = [kdelays EXCEPT ![k] =
                                      Append(@, Backoff(retry_count_'))]
                    /\ UNCHANGED kres
       ELSE /\ kpc' = [kpc EXCEPT ![k] = "cancelled"]
            /\ kres' = [kres EXCEPT ![k] = Cancelled]
            /\ UNCHANGED <<retry_count_, kdelays>>
    /\ UNCHANGED <<ktries, kalone, kcalls>>
    /\ UNCHANGED <<cvars, pvars, evars, gvars>>

(* --------------------------- specifications --------------------------- *)
\* nothing observed yet
InitObserved ==
    /\ dropped = {}
    /\ lastTarget = [p \in Partitions |-> 0]

Init ==
    /\ InitConsumer /\ InitProducer /\ InitCache /\ InitEnvelope
    /\ InitObserved

Next ==
    \/ \E p \in Partitions : \E r \in RecordShapes(p) : Produce(p, r)
    \/ Signal
    \/ \E ok \in BOOLEAN : Start(ok)
    \/ \E ok \in BOOLEAN : Listen(ok)
    \/ LoopTest
    \/ PollError
    \/ \E b \in [Partitions -> 0..MAX_RECORD], first \in Partitions :
          Poll(b, first) /\ UNCHANGED gvars
    \/ \E ok \in BOOLEAN : CreateHeader(ok)
    \/ \E s \in Scripts : HandleEvent(s)
    \/ \E ok \in BOOLEAN : SaveHeader(ok)
    \/ \E ok \in BOOLEAN : CommitEvent(ok) /\ UNCHANGED gvars
    \/ Stop
    \/ Restart

Spec == Init /\ [][Next]_vars

\* one run of listen() on one instance: the topic holds MaxLiveLog records
\* at most and the process is not started again
ProduceFew(p, r) == TotalLog < MaxLiveLog /\ Produce(p, r)

NextL ==
    \/ \E p \in Partitions : \E r \in RecordShapes(p) : ProduceFew(p, r)
    \/ Signal
    \/ \E ok \in BOOLEAN : Start(ok)
    \/ \E ok \in BOOLEAN : Listen(ok)
    \/ LoopTest
    \/ PollError
    \/ \E b \in [Partitions -> 0..MAX_RECORD], first \in Partitions :
          Poll(b, first) /\ UNCHANGED gvars
    \/ \E ok \in BOOLEAN : CreateHeader(ok)
    \/ \E s \in Scripts : HandleEvent(s)
    \/ \E ok \in BOOLEAN : SaveHeader(ok)
    \/ \E ok \in BOOLEAN : CommitEvent(ok) /\ UNCHANGED gvars
    \/ Stop

ListenSpec == Init /\ [][NextL]_vars

\* one run of listen() on a topic that holds MaxBatchLog records when the
\* consumer is constructed: well-formed events and values that are not
\* JSON, on either partition
BatchShapes ==
    { Rec("object", "user.created", TRUE, "none", EncodeKey(None)),
      Rec("bad_json", "absent", FALSE, "none", EncodeKey(None)) }

SeqsUpTo(S, n) == UNION {[1..k -> S] : k \in 0..n}

BatchLogs ==
    { l \in [Partitions -> SeqsUpTo(BatchShapes, MaxBatchLog)] :
        Len(l[1]) + Len(l[2]) = MaxBatchLog }

InitB ==
    /\ log \in BatchLogs
    /\ InitInstance
    /\ cfg.attrs = "bound"
    /\ InitProducer /\ InitCache /\ InitEnvelope
    /\ InitObserved

\* the records of batch b that _get_new_event does not return: all but
\* messages[0] of the first partition
Remainder(b, first) ==
    { x \in Partitions \X (0..MaxBatchLog) :
        /\ x[2] >= position[x[1]]
        /\ x[2] < position[x[1]] + b[x[1]]
        /\ x # <<first, position[first]>> }

PollObserved(b, first) ==
    /\ Poll(b, first)
    /\ dropped' = dropped \cup Remainder(b, first)
    /\ UNCHANGED lastTarget

CommitObserved(ok) ==
    /\ CommitEvent(ok)
    /\ lastTarget' = [lastTarget EXCEPT ![event.meta.topic_partition] =
                         CommitTarget(event)]
    /\ UNCHANGED dropped

NextB ==
    \/ Signal
    \/ \E ok \in BOOLEAN : Listen(ok)
    \/ LoopTest
    \/ PollError
    \/ \E b \in [Partitions -> 0..MAX_RECORD], first \in Partitions :
          PollObserved(b, first)
    \/ \E ok \in BOOLEAN : CreateHeader(ok)
    \/ \E s \in Scripts : HandleEvent(s)
    \/ \E ok \in BOOLEAN : SaveHeader(ok)
    \/ \E ok \in BOOLEAN : CommitObserved(ok)

BatchSpec == InitB /\ [][NextB]_vars

\* listen() is one coroutine on a running event loop: its next statement
\* is executed, and every call it awaits (getmany, the collaborators of
\* the handling, save_header, commit) comes back, with a result or with an
\* exception
ListenFair ==
    /\ WF_vars(LoopTest)
    /\ WF_vars(PollError
               \/ \E b \in [Partitions -> 0..MAX_RECORD],
                     first \in Partitions :
                     Poll(b, first) /\ UNCHANGED gvars)
    /\ WF_vars(\E ok \in BOOLEAN : CreateHeader(ok))
    /\ WF_vars(\E s \in Scripts : HandleEvent(s))
    /\ WF_vars(\E ok \in BOOLEAN : SaveHeader(ok))
    /\ WF_vars(\E ok \in BOOLEAN : CommitEvent(ok) /\ UNCHANGED gvars)

LiveSpec == ListenSpec /\ ListenFair

\* the producer alone, beside a consumer that is never run
InitP ==
    /\ InitConsumer
    /\ cfg.attrs = "unbound"
    /\ InitProducer
    /\ InitCache
    /\ InitEnvelope
    /\ InitObserved

NextP ==
    \/ \E c \in Callers : Publish(c)
    \/ \E c \in Callers, ok \in BOOLEAN : StartDone(c, ok)
    \/ \E c \in Callers, o \in SendOutcomes : Send(c, o)
    \/ \E c \in Callers : Wake(c)
    \/ ProducerStart
    \/ \E ok \in BOOLEAN : ProducerStartDone(ok)
    \/ ProducerStop
    \/ \E ok \in BOOLEAN : ProducerStopDone(ok)

ProducerSpec == InitP /\ [][NextP]_vars

\* every await of publish() comes back: the transport's start, the send
\* with its acknowledgment, and the backoff sleep
PublishFair ==
    \A c \in Callers :
        /\ WF_vars(\E ok \in BOOLEAN : StartDone(c, ok))
        /\ WF_vars(\E o \in SendOutcomes : Send(c, o))
        /\ WF_vars(Wake(c))

\* the callers of publish() alone, the owner never calling start() or stop()
NextPub ==
    \/ \E c \in Callers : Publish(c)
    \/ \E c \in Callers, ok \in BOOLEAN : StartDone(c, ok)
    \/ \E c \in Callers, o \in SendOutcomes : Send(c, o)
    \/ \E c \in Callers : Wake(c)

PublishSpec == InitP /\ [][NextPub]_vars

PublishLiveSpec == PublishSpec /\ PublishFair

\* the cache client alone
NextK ==
    \/ \E k \in Commands : ExecuteCommand(k)
    \/ \E k \in Commands, o \in CacheOutcomes : BackendCall(k, o)
    \/ \E k \in Commands : CacheWake(k)

CacheSpec == InitP /\ [][NextK]_vars

\* one publish() call on a started producer, with what it sends
NextE ==
    \/ Tick
    \/ \E a \in PublishArgs : PublishCall(a)
    \/ \E o \in SendOutcomes : SendEnvelope(o)
    \/ WakeEnvelope

EnvelopeSpec == InitP /\ [][NextE]_vars

\* publish() calls and cache commands whose tasks may be cancelled. The
\* producer and the cache client share no state: a behaviour exercises
\* one of them.
ProducerUnused == \A c \in Callers : pcalls[c] = 0
CacheUnused == \A k \in Commands : kcalls[k] = 0

NextX ==
    \/ \E c \in Callers : CacheUnused /\ Publish(c)
    \/ \E c \in Callers, ok \in BOOLEAN : StartDone(c, ok)
    \/ \E c \in Callers, o \in SendOutcomes : Send(c, o)
    \/ \E c \in Callers : Wake(c)
    \/ \E c \in Callers, caught \in BOOLEAN : CancelPublish(c, caught)
    \/ \E k \in Commands : ProducerUnused /\ ExecuteCommand(k)
    \/ \E k \in Commands, o \in CacheOutcomes : BackendCall(k, o)
    \/ \E k \in Commands : CacheWake(k)
    \/ \E k \in Commands : CancelCommand(k)

CancelSpec == InitP /\ [][NextX]_vars

(* ------------------------------ properties ---------------------------- *)
InSteps(x) == \E i \in DOMAIN steps : steps[i] = x
CommitCount == Cardinality({i \in DOMAIN steps : steps[i] = "commit"})

\* the iteration for the record taken by the last poll is over
IterationOver == rec # NoRec /\ pc \in {"loop", "poll", "returned", "raised"}

\* C1: for every consumed record _commit_event is called at most once, and
\* only after the handling attempt (_create_header + _handle_event) has
\* ended in success or in a skippable failure; nothing is called for the
\* record after its commit.
C1_CommitOnceAfterAttempt ==
    /\ CommitCount <= 1
    /\ pc = "commit" => attempt \in {"success", "skip"}
    /\ CommitCount = 1 =>
          /\ attempt \in {"success", "skip"}
          /\ steps[Len(steps)] = "commit"

C1_Witness == CommitCount = 1 /\ InSteps("handle") /\ pc = "loop"

\* C2: for every record whose handling returned without raising (the else
\* clause of listen() is entered), once the iteration is over the committed
\* offset of the record's partition is the record's offset + 1, whatever
\* the audit sink and the commit call do.
C2_CommittedAfterSuccess ==
    (IterationOver /\ attempt = "success") =>
        committed[rec.tp] = rec.off + 1

\* C3: a critical outcome makes listen() raise CriticalException without
\* committing the record's offset, and the run after a restart is
\* delivered that record again: the poll that moves the fetch position of
\* its partition past the record hands that record to the loop.
C3_CriticalRedelivered ==
    /\ [](raw = Critical =>
            /\ pc = "raised" /\ exc = Critical
            /\ CommitCount = 0
            /\ committed[rec.tp] <= rec.off)
    /\ [][(/\ prev # NoRec
           /\ position[prev.tp] <= prev.off
           /\ position'[prev.tp] > prev.off) => rec' = prev]_vars

\* C4: every skippable outcome of an iteration (a skip signal of the
\* handler, a value that cannot be decoded, a trace-header error) ends with
\* the record's offset committed and the loop going on.
C4_SkippableCommitted ==
    (IterationOver /\ attempt \in {"skip", "decode_error", "header_error"})
        => (CommitCount = 1 /\ pc # "raised")

\* C5: an exception raised while handling a record (by a filter, the
\* before-handle transform, the handler or the after-handle hook) that is
\* neither a skip nor a critical signal leaves listen() as a
\* CriticalException, and the record's offset is not committed.
C5_UnclassifiedPromoted ==
    raw = Other =>
        /\ pc = "raised" /\ exc = Critical
        /\ CommitCount = 0
        /\ committed[rec.tp] <= rec.off

C5_Witness ==
    raw = Other /\ InSteps("handle") /\ pc = "raised" /\ exc = Critical

\* C6: the only exception that leaves listen() is CriticalException.
C6_OnlyCriticalEscapes == pc = "raised" => exc = Critical

AllTransient(c) == \A i \in DOMAIN sends[c] : sends[c][i] = "transient"
PublishGaveUp(c) ==
    ppc[c] = "raised" /\ pexc[c] = PublishFailed /\ AllTransient(c)

\* C7: a call that meets N transient failures and then an acknowledgment,
\* N < MAX_RETRY, returns after exactly N + 1 sends and N sleeps of
\* RETRY_DELAY each; publish() does not give up before MAX_RETRY transient
\* failures.
C7_TransientThenAck ==
    \A c \in Callers :
        /\ (ppc[c] = "returned" /\ Len(sends[c]) - 1 < MAX_RETRY) =>
              LET n == Len(sends[c]) - 1 IN
              /\ \A i \in 1..n : sends[c][i] = "transient"
              /\ sends[c][n + 1] = "ack"
              /\ sleeps[c] = [i \in 1..n |-> RETRY_DELAY]
        /\ PublishGaveUp(c) => Len(sends[c]) >= MAX_RETRY

C7_Witness ==
    \E c \in Callers :
        ppc[c] = "returned" /\ Len(sends[c]) = MAX_RETRY
        /\ Len(sleeps[c]) = MAX_RETRY - 1

\* C8 as stated: a call that met transient failures only raises
\* KafkaPublishMessageFailed after exactly MAX_RETRY sends.
C8_GivesUpAfterMaxRetrySends ==
    \A c \in Callers : PublishGaveUp(c) => Len(sends[c]) = MAX_RETRY

\* C8 amended: a call that met transient failures only raises
\* KafkaPublishMessageFailed after exactly MAX_RETRY + 1 sends (the first
\* one and MAX_RETRY retries, each after one sleep), and a call with
\* MAX_RETRY + 1 transient failures has raised.
C8_GivesUpAfterMaxRetryPlusOne ==
    \A c \in Callers :
        /\ PublishGaveUp(c) =>
              /\ Len(sends[c]) = MAX_RETRY + 1
              /\ Len(sleeps[c]) = MAX_RETRY
              /\ retry_count[c] = MAX_RETRY
        /\ (AllTransient(c) /\ Len(sends[c]) = MAX_RETRY + 1) =>
              PublishGaveUp(c)

C8_Witness == \E c \in Callers : PublishGaveUp(c)

\* C9: a send that raises anything but the three transient errors ends
\* the call with KafkaPublishMessageFailed at once: it is the last send of
\* the call and no sleep follows it, whatever the retry count.
C9_OtherFailsAtOnce ==
    \A c \in Callers : \A i \in DOMAIN sends[c] :
        sends[c][i] = "other" =>
            /\ i = Len(sends[c])
            /\ ppc[c] = "raised" /\ pexc[c] = PublishFailed
            /\ Len(sleeps[c]) = i - 1
            /\ retry_count[c] = i - 1

C9_Witness ==
    \E c \in Callers :
        Len(sends[c]) >= 2 /\ sends[c][Len(sends[c])] = "other"

\* C10: publish() returns only when its last send was acknowledged by the
\* broker; a call that ended otherwise ended with an exception.
C10_ReturnsOnlyAcked ==
    \A c \in Callers :
        /\ ppc[c] = "returned" =>
              /\ Len(sends[c]) >= 1
              /\ sends[c][Len(sends[c])] = "ack"
              /\ pexc[c] = "none"
        /\ ppc[c] = "raised" => pexc[c] # "none"
        /\ (Len(sends[c]) >= 1 /\ sends[c][Len(sends[c])] # "ack") =>
              ppc[c] \in {"sleep", "send", "raised"}

C10_Witness ==
    \E c \in Callers :
        ppc[c] = "returned" /\ sends[c] = <<"transient", "ack">>

\* C11: every call of publish() that ends with an exception ends with
\* KafkaPublishMessageFailed; no transport error leaves it as it is, the
\* errors of the lazy start included.
C11_OnlyPublishFailed ==
    \A c \in Callers : ppc[c] = "raised" => pexc[c] = PublishFailed

Starting ==
    Cardinality({c \in Callers : ppc[c] = "start"})
    + (IF opc = "start" THEN 1 ELSE 0)

\* C12: the started test and the setting of the flag are one gate: at no
\* time are two calls (of publish() or start()) inside the transport's
\* start, and while no start has failed and no stop was made the
\* transport's start was invoked at most once.
C12_SingleStartGate ==
    /\ Starting <= 1
    /\ (pstarted /\ pstops = 0) => pstarts <= 1

\* C13: start() on a started producer and stop() on a producer that is not
\* started leave the transport and the flag alone; publish() on a producer
\* that is not started calls the transport's start before it sends.
C13_StartStopIdempotent ==
    /\ [][(ProducerStart /\ pstarted) =>
             UNCHANGED <<pstarted, pstarts, pstops, opc>>]_vars
    /\ [][(ProducerStop /\ ~pstarted) =>
             UNCHANGED <<pstarted, pstarts, pstops, opc>>]_vars
    /\ [][\A c \in Callers : (Publish(c) /\ ~pstarted) =>
             (pstarts' = pstarts + 1 /\ ppc'[c] = "start")]_vars
    /\ [](\A c \in Callers : sends[c] # <<>> => pstarts >= 1)

\* the owner called start() and then start() again, or stop() and then
\* start(): two calls, the transport touched once
C13_Witness ==
    /\ ocalls = 2 /\ opc = "idle"
    /\ pstarted /\ pstarts = 1 /\ pstops = 0
    /\ \A c \in Callers : pcalls[c] = 0

\* the backoffs of a command that kept its own count: 2^(attempt-1) for
\* attempt 1, 2, ... n
OwnBackoffs(n) == [i \in 1..n |-> 2 ^ (i - 1)]

\* C14: a cache command that runs with no other command beside it and
\* whose every backend call raises one of the caught errors returns the
\* sentinel False, never raises, makes max_retries retries after the first
\* call, and sleeps 1, 2, 4 before them.
C14_SentinelAfterBackoff ==
    \A k \in Commands :
        /\ kpc[k] = "raised" => ~Caught(kres[k])
        /\ kalone[k] =>
              /\ Len(kdelays[k]) <= max_retries
              /\ kdelays[k] = OwnBackoffs(Len(kdelays[k]))
              /\ kres[k] = "False" =>
                    /\ kpc[k] = "returned"
                    /\ ktries[k] = max_retries + 1
                    /\ kdelays[k] = <<1, 2, 4>>
              /\ ktries[k] = max_retries + 1 =>
                    (kpc[k] # "sleep" /\ kres[k] \in {"False", "value", Other})

C14_Witness ==
    \E k \in Commands :
        kalone[k] /\ kres[k] = "False" /\ kdelays[k] = <<1, 2, 4>>

\* C15: the retry state belongs to one command: whatever other commands
\* run on the client meanwhile, a command that ends with the sentinel
\* made exactly max_retries retries and slept 1, 2, 4, and a command in
\* flight follows its own backoff sequence.
C15_RetryStatePerCommand ==
    \A k \in Commands :
        /\ kdelays[k] = OwnBackoffs(Len(kdelays[k]))
        /\ kres[k] = "False" =>
              (ktries[k] = max_retries + 1 /\ kdelays[k] = <<1, 2, 4>>)

\* C16: a record whose value cannot be decoded is not handled and not
\* committed, the loop goes on, and the next poll that hands out a record
\* of its partition hands out that same record again.
C16_DecodeErrorRedelivered ==
    /\ [](attempt = "decode_error" =>
            /\ steps = <<>>
            /\ pc # "raised"
            /\ committed[rec.tp] <= rec.off)
    /\ [][(/\ attempt = "decode_error" /\ pc = "poll"
           /\ rec' # NoRec /\ rec'.tp = rec.tp) => rec'.off = rec.off]_vars

\* C17 as stated: once the flag is set no further poll is issued and no
\* further record enters its handling (_create_header, _handle_event);
\* only a record that was being handled is finished.
C17_NoRecordAfterSignal ==
    /\ [][(stopped /\ pc' = "poll") => pc = "poll"]_vars
    /\ [][(stopped /\ pc' = "header") => pc = "header"]_vars

\* C17 amended: once the flag is set no new poll is issued; a record is
\* taken after that only by the poll that was in flight when the flag was
\* set; listen() returns only with the flag set and with the record in
\* hand finished: handled and, if that ended in success or in a skip, its
\* commit issued as the last step.
C17_StopAfterCurrentIteration ==
    /\ [][(stopped /\ pc' = "poll") => pc = "poll"]_vars
    /\ [][(stopped /\ rec' # rec /\ rec' # NoRec) => pc = "poll"]_vars
    /\ [](pc = "returned" =>
            /\ stopped
            /\ attempt \in {"none", "success", "skip", "decode_error"}
            /\ attempt \in {"success", "skip"} =>
                  (CommitCount = 1 /\ steps[Len(steps)] = "commit"))

\* the flag was set during an iteration, the record was handled and its
\* commit issued, then the loop test ended listen()
C17_Witness ==
    stopped /\ pc = "returned" /\ InSteps("handle") /\ CommitCount = 1

\* C18: a record whose trace headers cannot be decoded is skipped: the
\* handler is not called, listen() goes on and the record's commit is
\* issued.
C18_HeaderErrorSkippable ==
    attempt = "header_error" =>
        /\ ~InSteps("handle")
        /\ pc \in {"commit", "loop", "poll", "returned"}
        /\ pc # "commit" => CommitCount = 1

\* C19: when listen() has ended, by the stop flag or by a critical
\* failure, the consumer is stopped: the started flag is false.
C19_EndsStopped ==
    (pc = "returned" \/ (pc = "raised" /\ exc = Critical)) => ~started

\* C20: a call of listen() finds the transport started by start() or
\* starts it itself, once in all, and enters the loop, unless the
\* transport's start fails.
C20_ListenStartsOnce ==
    [][(pc = "idle" /\ pc' \in {"loop", "raised"}) =>
          /\ transportStarts' = 1
          /\ started' => pc' = "loop"
          /\ pc' = "raised" => exc' = "KafkaConnectionError"]_vars

CountOf(x) == Cardinality({i \in DOMAIN steps : steps[i] = x})
Handling == pc \in {"header", "handle", "save", "commit"}

\* C21: an iteration works on one record, messages[0] of the batch, and
\* that record gets one handling attempt: _create_header and the handler
\* are called at most once for it, and the fetch position is past it, so
\* that no later poll of the run hands it out again.
C21_OneAttemptPerRecord ==
    /\ CountOf("header") <= 1
    /\ CountOf("handle") <= 1
    /\ rec # NoRec => rec.off < position[rec.tp]
    /\ Handling =>
          /\ rec # NoRec /\ ~event.empty
          /\ event.meta.offset = rec.off
          /\ event.meta.topic_partition = rec.tp

\* a poll returned two records of a partition or more, the first one was
\* handled
C21_Witness ==
    /\ CountOf("handle") = 1 /\ rec # NoRec
    /\ position[rec.tp] > rec.off + 1

\* C22 as stated: the filter chain runs before the trace headers are
\* decoded: no filter step comes after the header step, and with filters
\* configured the handling of a record begins with the first filter.
C22_FilterBeforeTrace ==
    /\ \A i, j \in DOMAIN steps :
          (steps[i] = "header" /\ steps[j] \in {"filter1", "filter2"})
              => j < i
    /\ (steps # <<>> /\ cfg.nfilters > 0) => steps[1] = "filter1"

\* place of a call in the iteration as listen() and _handle_event make it
Rank(x) ==
    IF x = "header" THEN 1
    ELSE IF x = "filter1" THEN 2
    ELSE IF x = "filter2" THEN 3
    ELSE IF x = "before" THEN 4
    ELSE IF x = "handle" THEN 5
    ELSE IF x = "after" THEN 6
    ELSE IF x = "save" THEN 7
    ELSE 8

\* C22 amended: the steps of an iteration run in the order trace headers,
\* filters, before-handle transform, handler, after-handle hook, audit
\* sink, commit; the handling of a record begins with _create_header, and
\* a record whose headers cannot be decoded reaches no filter.
C22_TraceBeforeFilter ==
    /\ \A i, j \in DOMAIN steps : i < j => Rank(steps[i]) < Rank(steps[j])
    /\ steps # <<>> => steps[1] = "header"
    /\ attempt = "header_error" => steps = <<"header">>

\* the headers were decoded, then the first filter rejected the event
C22_Witness == steps = <<"header", "filter1">> /\ raw # "none"

\* C23: the filters run in list order and the chain stops at the first one
\* that raises: when filter i raises, the calls made for the event are
\* filters 1..i, the exception is the filter's, and neither a later
\* filter, the before-handle transform nor the handler is called. The
\* transform and the handler are reached only after every filter ran.
C23_FilterShortCircuit ==
    /\ [][\A s \in Scripts :
            (HandleEvent(s) /\ s.stage \in {"filter1", "filter2"}) =>
               /\ steps' = steps \o (IF s.stage = "filter1"
                                     THEN <<"filter1">>
                                     ELSE <<"filter1", "filter2">>)
               /\ raw' = s.x
               /\ pc' \in {"commit", "raised"}]_vars
    /\ [](\A i \in DOMAIN steps :
             steps[i] = "filter2" => (i > 1 /\ steps[i - 1] = "filter1"))
    /\ []((InSteps("before") \/ InSteps("handle")) =>
             \A k \in 1..cfg.nfilters : CountOf(FilterName(k)) = 1)

\* the first of two filters raised a skip: the record goes to the commit
C23_Witness ==
    /\ cfg.nfilters = 2 /\ pc = "commit"
    /\ steps[Len(steps)] = "filter1" /\ raw = Skip

\* C24: a record enters the handling only from the poll, when the
\* iteration of the record before it is over (a handled or skipped record
\* went through its commit); the record taken lies at or after the fetch
\* position and the fetch position moves past it, and within a run of
\* listen() the fetch position of a partition never moves back: the
\* records of a partition reach the handler one at a time, by increasing
\* offset.
C24_OneRecordInOrder ==
    /\ [][(pc' = "header" /\ pc # "header") =>
            /\ pc = "poll"
            /\ attempt \in {"none", "success", "skip", "decode_error"}
            /\ attempt \in {"success", "skip"} => CommitCount = 1
            /\ rec' # NoRec
            /\ rec'.off >= position[rec'.tp]
            /\ rec'.off < position'[rec'.tp]]_vars
    /\ [][pc' # "idle" =>
            \A p \in Partitions : position'[p] >= position[p]]_vars
    /\ [](pc \in {"header", "handle", "save", "commit"} =>
            (rec # NoRec /\ rec.off < position[rec.tp]))

\* the second record of a partition is with the handler, the first one
\* having been committed in the same run
C24_Witness ==
    /\ pc = "handle" /\ runs = 1
    /\ rec # NoRec /\ rec.off = 1 /\ committed[rec.tp] = 1

\* C25: a commit that fails moves no committed offset, raises nothing and
\* sends listen() back to the top of its loop; an iteration issues one
\* transport commit at most, and after it listen() is at the loop test, in
\* the next poll or returned, never raised.
C25_CommitFailureSwallowed ==
    /\ [][CommitEvent(FALSE) =>
            /\ committed' = committed
            /\ exc' = exc
            /\ pc' = "loop"
            /\ steps' = Append(steps, "commit")]_vars
    /\ [](CommitCount <= 1)
    /\ [](InSteps("commit") => pc \in {"loop", "poll", "returned"})

\* a handled record whose commit failed, listen() going on
C25_Witness ==
    /\ pc = "poll" /\ CommitCount = 1 /\ attempt = "success"
    /\ rec # NoRec /\ committed[rec.tp] <= rec.off

\* C26 as stated: the event of a structured record reaches the handler
\* with the key the record was published with, whatever key publish() was
\* given (None for no key), and the commit after the handling leaves the
\* committed offset of the partition one past the record.
C26_KeyRoundTrip ==
    /\ [](( /\ pc = "handle"
            /\ event.ev.json = "object"
            /\ event.ev.event_type # "absent"
            /\ event.ev.payload) =>
             \A k \in Keys :
                EncodeKey(k) = log[rec.tp][rec.off + 1].key
                    => event.ev.key = k)
    /\ [][CommitEvent(TRUE) => committed'[rec.tp] = rec.off + 1]_vars

\* C27: a poll that yields no event (nothing fetched, a transport error
\* or an undecodable value) sends listen() back to the top of its loop:
\* nothing is raised, no call of the handling is made, no commit is
\* issued and no committed offset changes.
C27_EmptyPollLoops ==
    /\ [][(pc = "poll" /\ pc' \notin {"poll", "exited"} /\ event'.empty) =>
            /\ pc' = "loop"
            /\ committed' = committed
            /\ steps' = <<>>
            /\ exc' = exc
            /\ started' = started]_vars
    /\ []((pc = "loop" /\ event.empty) => (steps = <<>> /\ exc = "none"))

\* a record was handled and committed, the poll after it came back empty
C27_Witness ==
    /\ pc = "loop" /\ event.empty /\ rec = NoRec /\ steps = <<>>
    /\ committed[1] = 1

\* C28: save_header is called only on a consumer that has an audit sink
\* and only for a record whose try block completed: once, after the
\* handler (and the after-handle hook) returned and before the commit;
\* never for a skipped record nor for one that raised a critical error.
C28_SaveOnlyAfterSuccess ==
    /\ pc = "save" => (cfg.mapper /\ attempt = "success")
    /\ InSteps("save") =>
          /\ cfg.mapper
          /\ attempt = "success" /\ raw = "none"
          /\ CountOf("save") = 1
          /\ InSteps("handle")
          /\ \A i, j \in DOMAIN steps :
                (steps[j] = "save" /\ steps[i] \in {"handle", "after"})
                    => i < j
          /\ \A i, j \in DOMAIN steps :
                (steps[j] = "save" /\ steps[i] = "commit") => j < i
    /\ attempt \in {"skip", "critical", "header_error", "decode_error"}
          => ~InSteps("save")

\* the header of a handled record was saved, then its offset committed
C28_Witness ==
    /\ cfg.mapper /\ attempt = "success"
    /\ Len(steps) >= 3
    /\ steps[Len(steps)] = "commit" /\ steps[Len(steps) - 1] = "save"

\* listen() is in its loop
Running == pc \in {"loop", "poll", "header", "handle", "save", "commit"}

\* C29 as stated: with the flag set while listen() is in its loop, and
\* every awaited call coming back, listen() eventually returns (or a
\* second signal ends the process).
C29_StopLeadsToReturn ==
    (stopped /\ Running) ~> (pc \in {"returned", "exited"})

\* C29 amended: with the flag set while listen() is in its loop, and
\* every awaited call coming back, listen() eventually ends: it returns,
\* or an error of the iteration in progress leaves it, or a second signal
\* ends the process.
C29_StopLeadsToEnd ==
    (stopped /\ Running) ~> (pc \in {"returned", "raised", "exited"})

\* the flag is set and the record in hand ended listen() with a critical
\* error raised by the handling
C29_Witness ==
    stopped /\ pc = "raised" /\ exc = Critical /\ InSteps("handle")

\* C30: the stop flag starts false; a signal that finds it false sets it
\* and does nothing else; once set it stays set, whatever start(), stop()
\* and listen() do; it is set by a signal only; a signal that finds it set
\* ends the process.
C30_StopFlagMonotonic ==
    /\ ~stopped
    /\ [][stopped => stopped']_vars
    /\ [][(~stopped /\ stopped') => Signal]_vars
    /\ [][(Signal /\ ~stopped) =>
            (stopped' /\ pc' = pc /\ started' = started)]_vars
    /\ [][(Signal /\ stopped) => pc' = "exited"]_vars

\* a second signal ended the process
C30_Witness == pc = "exited" /\ stopped /\ transportStarts = 0

\* C31: a cancellation that reaches a publish() call suspended in its
\* send, its backoff sleep or its lazy start ends the call, with
\* CancelledError or KafkaPublishMessageFailed: the call makes no further
\* send and sleeps no more. A cancellation that reaches a cache command
\* suspended in the backend call or in its backoff ends the command with
\* CancelledError: no further backend call, no further backoff, and the
\* retry counter is left as it was.
C31_CancellationEndsCall ==
    /\ [][\A c \in Callers : \A caught \in BOOLEAN :
            CancelPublish(c, caught) =>
               /\ ppc'[c] \in {"cancelled", "raised"}
               /\ pexc'[c] \in {Cancelled, PublishFailed}
               /\ sends'[c] = sends[c]
               /\ sleeps'[c] = sleeps[c]
               /\ retry_count'[c] = retry_count[c]]_vars
    /\ [][\A c \in Callers :
            (ppc[c] = "cancelled" /\ pcalls'[c] = pcalls[c]) =>
               /\ ppc'[c] = "cancelled"
               /\ sends'[c] = sends[c]
               /\ sleeps'[c] = sleeps[c]]_vars
    /\ [][\A k \in Commands :
            CancelCommand(k) =>
               /\ kpc'[k] = "cancelled"
               /\ kres'[k] = Cancelled
               /\ ktries'[k] = ktries[k]
               /\ kdelays'[k] = kdelays[k]
               /\ retry_count_' = retry_count_]_vars
    /\ [][\A k \in Commands :
            (kpc[k] = "cancelled" /\ kcalls'[k] = kcalls[k]) =>
               /\ kpc'[k] = "cancelled"
               /\ ktries'[k] = ktries[k]
               /\ kdelays'[k] = kdelays[k]]_vars

\* a cache command was cancelled after a failed backend call and its
\* backoff, a publish() after a failed send
C31_Witness ==
    \/ \E k \in Commands :
          kpc[k] = "cancelled" /\ ktries[k] = 1 /\ Len(kdelays[k]) = 1
    \/ \E c \in Callers :
          /\ ppc[c] = "cancelled" /\ pexc[c] = Cancelled
          /\ Len(sends[c]) = 1 /\ Len(sleeps[c]) = 1

\* C32: every send of one publish() call is handed the same envelope:
\* the event_type, payload and key of the call and one issued_at, which is
\* the argument when it was given and otherwise the time at which the
\* call was entered, however much time the backoffs take.
C32_SameEnvelope ==
    /\ [](\A i \in DOMAIN envelopes :
            /\ envelopes[i] = envelopes[1]
            /\ envelopes[i] = Envelope(eargs, issued_at)
            /\ envelopes[i].key = EncodeKey(eargs.key)
            /\ ~envelopes[i].issued_at.isnone
            /\ ~eargs.issued_at.isnone =>
                  envelopes[i].issued_at = eargs.issued_at)
    /\ [][(epc = "idle" /\ epc' = "send" /\ eargs'.issued_at.isnone) =>
            issued_at' = Time(now)]_vars
    /\ [][epc # "idle" => (issued_at' = issued_at /\ eargs' = eargs)]_vars

\* a call without issued_at sent its envelope a second time, after its
\* backoff, at a later time than the one it carries
C32_Witness ==
    /\ Len(envelopes) >= 2 /\ eargs.issued_at.isnone
    /\ now > envelopes[2].issued_at.t

\* the event that reaches the event_type test of _handle_event under
\* script s is an object without event_type, or with an empty one
LacksType(m, c, s) ==
    /\ s.stage \notin {"filter1", "filter2", "before"}
    /\ m.json = "object"
    /\ \/ m.event_type \in {"absent", "empty"}
       \/ c.before /\ s.b = "drop_type"

\* C33: an event that reaches the event_type test without event_type, or
\* with an empty one, raises InvalidMessageException: the calls made for
\* it are the filters and the before-handle transform only, the handling
\* ends as a skip and the next step of listen() is the record's commit,
\* after which the loop goes on.
C33_MissingTypeSkipped ==
    /\ [][\A s \in Scripts :
            (HandleEvent(s) /\ LacksType(event.ev, cfg, s)) =>
               /\ raw' = Invalid
               /\ attempt' = "skip"
               /\ pc' = "commit"
               /\ exc' = exc
               /\ steps' = steps \o FilterSteps(cfg.nfilters, 0)
                               \o (IF cfg.before THEN <<"before">>
                                   ELSE <<>>)]_vars
    /\ []((attempt = "skip" /\ pc # "commit") =>
             (CommitCount = 1 /\ pc \in {"loop", "poll", "returned"}))

\* a record whose event_type is empty was skipped and its commit issued
C33_Witness ==
    /\ rec # NoRec /\ ~event.empty /\ event.ev.event_type = "empty"
    /\ raw = Invalid /\ ~InSteps("handle")
    /\ CommitCount = 1 /\ pc = "loop"

\* C34: no record is passed over: a record that getmany fetched and
\* listen() was never handed (the records of a batch after messages[0]
\* of its first partition) does not lie below the committed offset of its
\* partition.
C34_NoRecordPassedOver ==
    \A x \in dropped : committed[x[1]] <= x[2]

\* C35: on a consumer without filters and before-handle transform a
\* record whose value is JSON but not an object is handed to
\* _handle_event, whose error is promoted: listen() raises
\* CriticalException and the record is not committed; and the run after a
\* restart ends on that record again: the poll that moves the fetch
\* position of its partition past the record hands that record to the
\* loop.
C35_NonObjectCritical ==
    /\ []((/\ rec # NoRec /\ ~event.empty
            /\ event.ev.json = "non_object"
            /\ cfg.nfilters = 0 /\ ~cfg.before
            /\ pc \notin {"header", "handle"}) =>
             /\ pc = "raised" /\ exc = Critical /\ raw = Other
             /\ CommitCount = 0
             /\ committed[rec.tp] <= rec.off)
    /\ [][(/\ prev # NoRec
           /\ log[prev.tp][prev.off + 1].json = "non_object"
           /\ position[prev.tp] <= prev.off
           /\ position'[prev.tp] > prev.off) => rec' = prev]_vars

\* C36: an exception of the after-handle hook that is not a skip signal,
\* raised after the handler returned, leaves listen() as
\* CriticalException: no commit is issued,
\* save_header is not called, the committed offset stays at or below the
\* record; and the run after a restart is handed that record again by the
\* poll that moves the fetch position of its partition past it.
C36_AfterHookCritical ==
    /\ [][\A s \in Scripts :
            (HandleEvent(s) /\ s.stage = "after" /\ ~IsSkippable(s.x)
               /\ steps'[Len(steps')] = "after") =>
               /\ pc' = "raised" /\ exc' = Critical
               /\ committed'[rec.tp] <= rec.off]_vars
    /\ []((pc = "raised" /\ steps # <<>> /\ steps[Len(steps)] = "after")
             => (~InSteps("save") /\ CommitCount = 0))
    /\ [][(/\ prev # NoRec
           /\ position[prev.tp] <= prev.off
           /\ position'[prev.tp] > prev.off
           /\ cfg.after
           /\ log[prev.tp][prev.off + 1].json = "object") =>
               rec' = prev]_vars

\* C37: an error of the transport's poll does not end listen(): it comes
\* back as an empty result, so listen() is at the top of its loop again
\* with nothing raised, no call of the handling made, no commit issued
\* and no offset moved; with the flag not set the loop test leads to the
\* next poll, and a poll may fail again however many failed before it.
C37_PollErrorLoops ==
    /\ [][PollError =>
            /\ pc' = "loop"
            /\ event'.empty
            /\ exc' = exc
            /\ steps' = <<>>
            /\ committed' = committed
            /\ position' = position
            /\ stopped' = stopped]_vars
    /\ []((pc = "loop" /\ ~stopped) => LoopGoes(stopped) = "poll")
    /\ [](pc = "poll" => ENABLED PollError)

\* records are waiting, the poll yielded none of them and listen() is
\* back at its loop test, going on
C37_Witness ==
    /\ pc = "loop" /\ ~stopped /\ event.empty /\ rec = NoRec
    /\ exc = "none" /\ position[1] < Len(log[1])

\* C38: within a run of listen() the committed offset of a partition
\* never goes down, and every commit issued for a partition, whether it
\* goes through or fails, targets an offset above the one the previous
\* commit issued for that partition targeted and above the committed
\* offset.
C38_CommitMonotonic ==
    /\ [][\A p \in Partitions : committed'[p] >= committed[p]]_vars
    /\ [][\A p \in Partitions : lastTarget'[p] >= lastTarget[p]]_vars
    /\ [][\A ok \in BOOLEAN :
            CommitObserved(ok) =>
               /\ CommitTarget(event) > lastTarget[event.meta.topic_partition]
               /\ CommitTarget(event) > committed[event.meta.topic_partition]
               /\ lastTarget'[event.meta.topic_partition]
                     = CommitTarget(event)]_vars
    /\ [](\A p \in Partitions : committed[p] <= lastTarget[p])

\* a commit of the partition went through and a later one, for a later
\* record, failed
C38_Witness ==
    \E p \in Partitions : committed[p] >= 1 /\ lastTarget[p] > committed[p]

\* a publish() call of caller c is under way
Publishing(c) == ppc[c] \in {"start", "send", "sleep"}

\* C39: when every await comes back, a publish() call under way ends, by
\* returning or by raising, whatever the sends meet; a call makes at most
\* MAX_RETRY + 1 sends, sleeps at most MAX_RETRY times, and its
\* retry_count stays at or below MAX_RETRY.
C39_PublishTerminates ==
    /\ \A c \in Callers :
          Publishing(c) ~> (ppc[c] \in {"returned", "raised"})
    /\ [](\A c \in Callers :
            /\ Len(sends[c]) <= MAX_RETRY + 1
            /\ Len(sleeps[c]) <= MAX_RETRY
            /\ retry_count[c] <= MAX_RETRY
            /\ Len(sleeps[c]) = retry_count[c])

\* a call used every retry and ended by raising
C39_Witness ==
    \E c \in Callers :
        /\ ppc[c] = "raised" /\ retry_count[c] = MAX_RETRY
        /\ Len(sends[c]) = MAX_RETRY + 1 /\ Len(sleeps[c]) = MAX_RETRY
====
